---- MODULE Spec2Model ----
(***************************************************************************)
(* Model of the pixeldrop loot roller (the useLoot hook) and of the pool   *)
(* configuration it is built from, of the App component that opens chests  *)
(* with it, and of the debounce and throttle helpers.                      *)
(*                                                                         *)
(* Numbers.  Entry weights are integers.  The fractional arguments         *)
(* (rarityBoost, multiplier, max) are carried as integers in units of      *)
(* 1/Unit, so 6 stands for 1.5 when Unit = 4.  Percentages are carried in  *)
(* hundredths (6000 stands for 60.00).  A value of Math.random() is        *)
(* carried as a numerator u in 0..RandDen-1 standing for u/RandDen.        *)
(***************************************************************************)
EXTENDS Integers, Sequences, FiniteSets, TLC

\* The roller: the pool the hook was given, its roll counter, and a record of
\* the call in progress.
VARIABLES pool, status, totalRolls, succeeded, call, ret, threw, drawn, prevRolls,
          lastEntries

\* The App component: its React state, the observedCounts map, the timers it
\* has pending in firing order, and a record of what has happened to it.
VARIABLES count, revealedDrops, isAnimating, attempts, activeChest, dropMultiplier,
          fragments, hotStreakRolls, x2RollsLeft, nextX2Threshold,
          totalRollsForEvent, observedCounts, timers,
          openings, lootCalls, cleared

\* The clock, and the closures of one debounced and one throttled function.
VARIABLES now, debounceTimer, debounceLast, debounceLog,
          throttleLastCall, throttleTimer, throttleLog

hookVars == <<pool, status, totalRolls, succeeded, call, ret, threw, drawn, prevRolls,
              lastEntries>>

appVars == <<count, revealedDrops, isAnimating, attempts, activeChest, dropMultiplier,
             fragments, hotStreakRolls, x2RollsLeft, nextX2Threshold,
             totalRollsForEvent, observedCounts, timers,
             openings, lootCalls, cleared>>

timingVars == <<now, debounceTimer, debounceLast, debounceLog,
                throttleLastCall, throttleTimer, throttleLog>>

vars == <<hookVars, appVars, timingVars>>

-----------------------------------------------------------------------------
(* Bounds of the model                                                     *)

MaxPoolLen == 2
MaxTotalRolls == 6
RandDen == 4
MaxOpenings == 2
MaxRunOpenings == 31
MaxTime == 5

-----------------------------------------------------------------------------
(* Program constants                                                       *)

POOL_BASE_WEIGHT == 10000
MAX_ROLL_COUNT == 10

Unit == 4

RARITY_ORDER == <<"common", "uncommon", "rare", "epic", "legendary", "mythic">>

RARE_PLUS_NAMES == {"rare", "epic", "legendary", "mythic"}

ChestType == {"normal", "rare", "epic"}

CHEST_CONFIGS_Unbalanced ==
  [normal |-> [excludeRarities |-> {}, maxRolls |-> MAX_ROLL_COUNT],
   rare   |-> [excludeRarities |-> {"common", "uncommon"},
               maxRolls |-> 3,
               weightOverrides |-> [rare |-> 5500, epic |-> 3000,
                                    legendary |-> 1400, mythic |-> 100]],
   epic   |-> [excludeRarities |-> {"common", "uncommon", "rare"},
               maxRolls |-> 2,
               weightOverrides |-> [epic |-> 6500, legendary |-> 3200,
                                    mythic |-> 30]]]

CHEST_CONFIGS ==
  [normal |-> [excludeRarities |-> {}, maxRolls |-> MAX_ROLL_COUNT],
   rare   |-> [excludeRarities |-> {"common", "uncommon"},
               maxRolls |-> 3,
               weightOverrides |-> [rare |-> 5500, epic |-> 3000,
                                    legendary |-> 1400, mythic |-> 100]],
   epic   |-> [excludeRarities |-> {"common", "uncommon", "rare"},
               maxRolls |-> 2,
               weightOverrides |-> [epic |-> 6500, legendary |-> 3200,
                                    mythic |-> 300]]]

StandardPool ==
  <<[name |-> "common", weight |-> 6000],
    [name |-> "uncommon", weight |-> 2500],
    [name |-> "rare", weight |-> 1000],
    [name |-> "epic", weight |-> 400],
    [name |-> "legendary", weight |-> 90],
    [name |-> "mythic", weight |-> 10]>>

-----------------------------------------------------------------------------
(* Inputs                                                                  *)

Null == "<null>"
Undefined == "<undefined>"

\* Names of the generated pools: one every chest but the normal one excludes,
\* one the rare and epic chests override and the boost raises, and one no
\* chest configuration mentions.
PoolNames == {"common", "epic", "gem"}

\* Weights of the pools the draws are made from, and of the larger family of
\* pools the construction and the odds table are computed for.
DrawWeights == {0, 2000, 6667}
PoolWeights == {0, 2000, 3333, 6667}

DistinctNames(p) == \A i, j \in 1..Len(p) : i # j => p[i].name # p[j].name

RECURSIVE SeqsUpTo(_, _)
SeqsUpTo(S, n) ==
  IF n = 0 THEN {<<>>}
  ELSE LET shorter == SeqsUpTo(S, n - 1)
       IN  shorter \cup {Append(s, e) : s \in {t \in shorter : Len(t) = n - 1}, e \in S}

EntryLists(weights) ==
  {p \in SeqsUpTo([name : PoolNames, weight : weights], MaxPoolLen) : DistinctNames(p)}
    \cup {StandardPool}

Pools(weights) == [name : {"rarity"}, entries : EntryLists(weights)]

RarityBoosts == {2, 4, 6, 8}
Multipliers == {-4, 0, 2, 4, 10}
\* options.max: <<>> when the option is not given, <<m>> when it is m / Unit.
MaxValues == {-4, 0, 2, 5, 8}
Maxes == {<<>>} \cup {<<m>> : m \in MaxValues}
RandomValues == 0..(RandDen - 1)

\* The values of Math.random() the App's handlers are run with: the two ends
\* of the grid for a single read, the two lowest for the start of a batch.
RunValues == {0, RandDen - 1}
BatchSeeds == {0, 1}

-----------------------------------------------------------------------------
(* Arithmetic of the JavaScript built-ins on scaled numbers                *)

\* Math.round(n / d) for d > 0: the nearest integer, halves rounded up.
MathRound(n, d) == (2 * n + d) \div (2 * d)

\* Math.floor(n / d) for d > 0.
MathFloor(n, d) == n \div d

MathMinLeft(a, b) == a

MathMin(a, b) == IF a <= b THEN a ELSE b

-----------------------------------------------------------------------------
(* useLoot: construction                                                   *)

RECURSIVE SumWeights(_)
SumWeights(entries) ==
  IF entries = <<>> THEN 0
  ELSE SumWeights(SubSeq(entries, 1, Len(entries) - 1)) + entries[Len(entries)].weight

PoolSum(p) == SumWeights(p.entries)

ExceedsBaseOrEqual(sum) == sum >= POOL_BASE_WEIGHT

ExceedsBase(sum) == sum > POOL_BASE_WEIGHT

NoCall == [op |-> "none"]

Fresh ==
  /\ status = "new"
  /\ totalRolls = 0
  /\ succeeded = 0
  /\ call = NoCall
  /\ ret = Undefined
  /\ threw = FALSE
  /\ drawn = <<>>
  /\ prevRolls = 0
  /\ lastEntries = <<>>

RarityNames == {RARITY_ORDER[i] : i \in 1..Len(RARITY_ORDER)}

\* 30 + Math.floor(Math.random() * 31), for the Math.random() value u.
X2Threshold(u) == 30 + MathFloor(u * 31, RandDen)

\* The App's state at its first render, u being the value Math.random() gave
\* the initializer of nextX2Threshold.  State that only drives the display
\* (isShaking, dropKey, shakeIntensity, titleFlash, particles, announcement,
\* the streak counters, effectiveChest, sidebarOpen, showDebug) is left out.
Mounted(u) ==
  /\ count = 0
  /\ revealedDrops = <<>>
  /\ isAnimating = FALSE
  /\ attempts = 0
  /\ activeChest = "normal"
  /\ dropMultiplier = 1
  /\ fragments = 0
  /\ hotStreakRolls = 0
  /\ x2RollsLeft = 0
  /\ nextX2Threshold = X2Threshold(u)
  /\ totalRollsForEvent = 0
  /\ observedCounts = [r \in RarityNames |-> 0]
  /\ timers = <<>>
  /\ openings = 0
  /\ lootCalls = 0
  /\ cleared = FALSE

\* The closures of debounce(fn, delay) and throttle(fn, limit) as created, at
\* time t: no timer, lastCall = 0, nothing called or invoked yet.
Created(t) ==
  /\ now = t
  /\ debounceTimer = <<>>
  /\ debounceLast = <<>>
  /\ debounceLog = <<>>
  /\ throttleLastCall = 0
  /\ throttleTimer = <<>>
  /\ throttleLog = <<>>

Init == pool \in Pools(DrawWeights) /\ Fresh /\ Mounted(0) /\ Created(0)

InitPools == pool \in Pools(PoolWeights) /\ Fresh /\ Mounted(0) /\ Created(0)

UseLoot ==
  /\ status = "new"
  /\ status' = IF ExceedsBase(PoolSum(pool)) THEN "error" ELSE "ready"
  /\ threw' = ExceedsBase(PoolSum(pool))
  /\ call' = [op |-> "useLoot"]
  /\ UNCHANGED <<pool, totalRolls, succeeded, ret, drawn, prevRolls, lastEntries>>
  /\ UNCHANGED <<appVars, timingVars>>

-----------------------------------------------------------------------------
(* getLoot: one weighted draw                                              *)

Unfiltered(entries, chestType) == entries

Filtered(entries, chestType) ==
  SelectSeq(entries, LAMBDA e : e.name \notin CHEST_CONFIGS[chestType].excludeRarities)

NotOverridden(entries, chestType) == entries

Overridden(entries, chestType) ==
  LET config == CHEST_CONFIGS[chestType]
  IN  IF "weightOverrides" \in DOMAIN config
      THEN [i \in 1..Len(entries) |->
              [name |-> entries[i].name,
               weight |-> IF entries[i].name \in DOMAIN config.weightOverrides
                          THEN config.weightOverrides[entries[i].name]
                          ELSE entries[i].weight]]
      ELSE entries

\* The boost with the product cut off instead of rounded.
BoostedTruncated(entries, rarityBoost) ==
  IF rarityBoost > Unit
  THEN [i \in 1..Len(entries) |->
          [name |-> entries[i].name,
           weight |-> IF entries[i].name \in RARE_PLUS_NAMES
                      THEN MathFloor(entries[i].weight * rarityBoost, Unit)
                      ELSE entries[i].weight]]
  ELSE entries

Boosted(entries, rarityBoost) ==
  IF rarityBoost > Unit
  THEN [i \in 1..Len(entries) |->
          [name |-> entries[i].name,
           weight |-> IF entries[i].name \in RARE_PLUS_NAMES
                      THEN MathRound(entries[i].weight * rarityBoost, Unit)
                      ELSE entries[i].weight]]
  ELSE entries

EffectiveEntries(entries, chestType, rarityBoost) ==
  Boosted(Overridden(Filtered(entries, chestType), chestType), rarityBoost)

\* The walk with roll < current.
RECURSIVE WalkStrict(_, _, _, _, _)
WalkStrict(entries, i, current, u, sum) ==
  IF i > Len(entries) THEN Null
  ELSE LET next == current + entries[i].weight
       IN  IF u * sum < next * RandDen THEN entries[i].name
           ELSE WalkStrict(entries, i + 1, next, u, sum)

\* The selection walk: roll = (u / RandDen) * sum, and the loop returns the
\* first entry with roll <= current.
RECURSIVE Walk(_, _, _, _, _)
Walk(entries, i, current, u, sum) ==
  IF i > Len(entries) THEN Null
  ELSE LET next == current + entries[i].weight
       IN  IF u * sum <= next * RandDen THEN entries[i].name
           ELSE Walk(entries, i + 1, next, u, sum)

\* getLoot with the counter raised before the zero-sum check.
DrawOnceCountFirst(p, chestType, rarityBoost, u) ==
  IF Len(p.entries) = 0 THEN [value |-> Null, rolls |-> 0, entries |-> <<>>]
  ELSE IF Len(Filtered(p.entries, chestType)) = 0
  THEN [value |-> Null, rolls |-> 0, entries |-> <<>>]
  ELSE LET es == EffectiveEntries(p.entries, chestType, rarityBoost)
           sum == SumWeights(es)
       IN  IF sum = 0 THEN [value |-> Null, rolls |-> 1, entries |-> es]
           ELSE [value |-> Walk(es, 1, 0, u, sum), rolls |-> 1, entries |-> es]

\* getLoot without the zero-sum check.
DrawOnceNoZeroCheck(p, chestType, rarityBoost, u) ==
  IF Len(p.entries) = 0 THEN [value |-> Null, rolls |-> 0, entries |-> <<>>]
  ELSE IF Len(Filtered(p.entries, chestType)) = 0
  THEN [value |-> Null, rolls |-> 0, entries |-> <<>>]
  ELSE LET es == EffectiveEntries(p.entries, chestType, rarityBoost)
           sum == SumWeights(es)
       IN  [value |-> Walk(es, 1, 0, u, sum), rolls |-> 1, entries |-> es]

\* The result of one getLoot call: the value returned, the number added to
\* totalRollsRef.current and the reweighted entries the draw was made from.
DrawOnce(p, chestType, rarityBoost, u) ==
  IF Len(p.entries) = 0 THEN [value |-> Null, rolls |-> 0, entries |-> <<>>]
  ELSE IF Len(Filtered(p.entries, chestType)) = 0
  THEN [value |-> Null, rolls |-> 0, entries |-> <<>>]
  ELSE LET es == EffectiveEntries(p.entries, chestType, rarityBoost)
           sum == SumWeights(es)
       IN  IF sum = 0 THEN [value |-> Null, rolls |-> 0, entries |-> es]
           ELSE [value |-> Walk(es, 1, 0, u, sum), rolls |-> 1, entries |-> es]

\* The walk of the chest-less getLoot, over the pool's own entries.
RECURSIVE LegacyWalk(_, _, _, _, _)
LegacyWalk(es, i, current, u, poolSum) ==
  IF i > Len(es) THEN Null
  ELSE LET next == current + es[i].weight
       IN  IF u * poolSum <= next * RandDen THEN es[i].name
           ELSE LegacyWalk(es, i + 1, next, u, poolSum)

\* The chest-less getLoot of the earlier hook: the value returned and the
\* number added to totalRollsRef.current.
LegacyDrawOnce(p, u) ==
  IF Len(p.entries) = 0 THEN [value |-> Null, rolls |-> 0]
  ELSE IF PoolSum(p) = 0 THEN [value |-> Null, rolls |-> 0]
  ELSE [value |-> LegacyWalk(p.entries, 1, 0, u, PoolSum(p)), rolls |-> 1]

\* The reweighting done on the pool's own entries.
PoolAfterDrawInPlace(p, chestType, rarityBoost) ==
  [p EXCEPT !.entries = Boosted(Overridden(p.entries, chestType), rarityBoost)]

\* filter/map build new arrays and new entry objects: the pool the hook was
\* given is left as it was.
PoolAfterDraw(p, chestType, rarityBoost) == p

Hits(values) == Len(SelectSeq(values, LAMBDA v : v # Null))

CountRollsAssigned(current, rolls) == rolls

\* totalRollsRef.current += 1, for each of the draws that reached it.
CountRolls(current, rolls) == current + rolls

GetLoot(chestType, rarityBoost, u) ==
  /\ status = "ready"
  /\ call.op = "none"
  /\ totalRolls < MaxTotalRolls
  /\ LET d == DrawOnce(pool, chestType, rarityBoost, u)
     IN  /\ ret' = d.value
         /\ totalRolls' = CountRolls(totalRolls, d.rolls)
         /\ drawn' = <<d.value>>
         /\ lastEntries' = d.entries
         /\ succeeded' = succeeded + Hits(<<d.value>>)
  /\ pool' = PoolAfterDraw(pool, chestType, rarityBoost)
  /\ call' = [op |-> "getLoot", chestType |-> chestType, rarityBoost |-> rarityBoost,
               u |-> u]
  /\ threw' = FALSE
  /\ prevRolls' = totalRolls
  /\ UNCHANGED <<status, appVars, timingVars>>

-----------------------------------------------------------------------------
(* getLoots: a batch of draws                                              *)

\* The i-th value Math.random() yields during one call: the values of a call
\* form the stream seed, seed + 1, seed + 2, ... on the grid.
RandomAt(seed, i) == (seed + i) % RandDen

\* randomInt without the final "+ minCeil".
RandomIntNoMin(min, max, u) ==
  LET maxFloor == MathFloor(max, Unit)
  IN  MathFloor(u * (maxFloor - min + 1), RandDen)

\* randomInt(min, max) for an integer min, from the Math.random() value u.
RandomInt(min, max, u) ==
  LET maxFloor == MathFloor(max, Unit)
  IN  MathFloor(u * (maxFloor - min + 1), RandDen) + min

NoRollsStrict(maxRolls) == maxRolls < 0

\* The early return of getLoots.
NoRolls(maxRolls) == maxRolls <= 0

ResolveMaxRolls(max, chestType) ==
  IF max = <<>> THEN CHEST_CONFIGS[chestType].maxRolls * Unit ELSE max[1]

\* reroll, in units of 1/Unit.
Reroll(baseCount, multiplier, maxRolls) ==
  MathMin(MathRound(baseCount * multiplier, Unit) * Unit, maxRolls * 2)

\* new Array(n) throws a RangeError unless n is an integer in 0..2^32-1; the
\* lengths of the model stay far below the upper end.
ValidArrayLength(n) == n % Unit = 0 /\ n >= 0

BatchDraws(p, chestType, rarityBoost, n, seed) ==
  [i \in 1..n |-> DrawOnce(p, chestType, rarityBoost, RandomAt(seed, i))]

RECURSIVE SumRolls(_)
SumRolls(draws) ==
  IF draws = <<>> THEN 0
  ELSE SumRolls(SubSeq(draws, 1, Len(draws) - 1)) + draws[Len(draws)].rolls

RECURSIVE Reversed(_)
Reversed(values) ==
  IF values = <<>> THEN <<>> ELSE Append(Reversed(Tail(values)), Head(values))

NotNullReversed(values) == Reversed(SelectSeq(values, LAMBDA v : v # Null))

NotNull(values) == SelectSeq(values, LAMBDA v : v # Null)

GetLoots(max, chestType, multiplier, rarityBoost, seed) ==
  /\ status = "ready"
  /\ call.op = "none"
  /\ LET maxRolls == ResolveMaxRolls(max, chestType)
         baseCount == RandomInt(1, maxRolls, RandomAt(seed, 0))
         reroll == Reroll(baseCount, multiplier, maxRolls)
         args == [op |-> "getLoots", max |-> max, chestType |-> chestType,
                  multiplier |-> multiplier, rarityBoost |-> rarityBoost]
     IN  IF NoRolls(maxRolls)
         THEN /\ ret' = <<>>
              /\ threw' = FALSE
              /\ drawn' = <<>>
              /\ call' = args
              /\ lastEntries' = <<>>
              /\ UNCHANGED <<pool, totalRolls, succeeded>>
         ELSE IF ~ValidArrayLength(reroll)
         THEN /\ ret' = Undefined
              /\ threw' = TRUE
              /\ drawn' = <<>>
              /\ call' = args @@ [baseCount |-> baseCount]
              /\ lastEntries' = <<>>
              /\ UNCHANGED <<pool, totalRolls, succeeded>>
         ELSE LET n == reroll \div Unit
                  draws == BatchDraws(pool, chestType, rarityBoost, n, seed)
                  values == [i \in 1..n |-> draws[i].value]
              IN  /\ totalRolls + n <= MaxTotalRolls
                  /\ ret' = NotNull(values)
                  /\ threw' = FALSE
                  /\ drawn' = values
                  /\ call' = args @@ [baseCount |-> baseCount]
                  /\ lastEntries' = IF n > 0 THEN draws[1].entries ELSE <<>>
                  /\ totalRolls' = CountRolls(totalRolls, SumRolls(draws))
                  /\ succeeded' = succeeded + Hits(values)
                  /\ pool' = IF n > 0 THEN PoolAfterDraw(pool, chestType, rarityBoost)
                                      ELSE pool
  /\ prevRolls' = totalRolls
  /\ UNCHANGED <<status, appVars, timingVars>>

-----------------------------------------------------------------------------
(* getLootChances, getRollCount, getPoolName                               *)

ToPercentageTruncated(value, total) ==
  IF value = 0 THEN 0 ELSE (value * 100 * 100) \div total

ToPercentageFraction(value, total) ==
  IF value = 0 THEN 0 ELSE MathRound(value * 100, total)

\* toPercentage(value, total), in hundredths: toFixed(2) keeps two decimals.
ToPercentage(value, total) ==
  IF value = 0 THEN 0 ELSE MathRound(value * 100 * 100, total)

ToPercentageChance(p, weight) == ToPercentage(weight, PoolSum(p))

RECURSIVE LootChances(_, _)
LootChances(p, entries) ==
  IF entries = <<>> THEN <<>>
  ELSE LET e == entries[Len(entries)]
       IN  (e.name :> ToPercentageChance(p, e.weight))
             @@ LootChances(p, SubSeq(entries, 1, Len(entries) - 1))

Observer(op, value) ==
  /\ status = "ready"
  /\ call.op = "none"
  /\ call' = [op |-> op]
  /\ ret' = value
  /\ threw' = FALSE
  /\ drawn' = <<>>
  /\ lastEntries' = <<>>
  /\ prevRolls' = totalRolls
  /\ UNCHANGED <<pool, status, totalRolls, succeeded, appVars, timingVars>>

GetLootChances == Observer("getLootChances", LootChances(pool, pool.entries))

GetRollCount == Observer("getRollCount", totalRolls)

GetPoolName == Observer("getPoolName", pool.name)

\* The caller takes the returned value; nothing of the finished call is kept
\* by the hook.
Return ==
  /\ call.op # "none"
  /\ status = "ready"
  /\ call' = NoCall
  /\ ret' = Undefined
  /\ threw' = FALSE
  /\ drawn' = <<>>
  /\ lastEntries' = <<>>
  /\ prevRolls' = totalRolls
  /\ UNCHANGED <<pool, status, totalRolls, succeeded, appVars, timingVars>>

Idle == status = "ready" /\ call.op = "none"

Next ==
  \/ UseLoot
  \/ Idle /\ \E c \in ChestType, b \in RarityBoosts, u \in RandomValues : GetLoot(c, b, u)
  \/ Idle /\ \E m \in Maxes, c \in ChestType, k \in Multipliers, b \in RarityBoosts,
               seed \in RandomValues : GetLoots(m, c, k, b, seed)
  \/ GetLootChances
  \/ GetRollCount
  \/ GetPoolName
  \/ Return

Spec == Init /\ [][Next]_vars

NextPools ==
  \/ UseLoot
  \/ GetLootChances
  \/ Return

SpecPools == InitPools /\ [][NextPools]_vars

-----------------------------------------------------------------------------
(* The App: opening the chest                                              *)

RARE_CHEST_FRAGMENTS == 20
EPIC_CHEST_FRAGMENTS == 50

\* The values the debug panel's drop-event buttons set.
DropMultipliers == {1, 2, 3}

\* rarityBoost 1.5 of a hot streak, in units of 1/Unit.
HotBoost == (3 * Unit) \div 2

MathMax(a, b) == IF a > b THEN a ELSE b

\* getRarityIdx: the zero-based place of a rarity in RARITY_ORDER.
RarityIdx(rarity) ==
  (CHOOSE i \in 1..Len(RARITY_ORDER) : RARITY_ORDER[i] = rarity) - 1

\* getBestRarity, as an index: the largest index met, starting from 0.
RECURSIVE BestIdx(_)
BestIdx(items) ==
  IF items = <<>> THEN 0
  ELSE MathMax(RarityIdx(Head(items)), BestIdx(Tail(items)))

RECURSIVE InsertByRarity(_, _)
InsertByRarity(sorted, item) ==
  IF sorted = <<>> THEN <<item>>
  ELSE IF RarityIdx(Head(sorted)) <= RarityIdx(item)
  THEN <<Head(sorted)>> \o InsertByRarity(Tail(sorted), item)
  ELSE <<item>> \o sorted

\* [...items].sort by rarity index; the sort is stable.
RECURSIVE SortByRarity(_)
SortByRarity(items) ==
  IF items = <<>> THEN <<>>
  ELSE InsertByRarity(SortByRarity(SubSeq(items, 1, Len(items) - 1)), items[Len(items)])

\* The chest a normal click is upgraded to by upgradeRoll = u / RandDen.
UpgradedChest(u) ==
  IF u * 1000 < 5 * RandDen THEN "epic"
  ELSE IF u * 1000 < 35 * RandDen THEN "rare"
  ELSE "normal"

\* chestType of a click: paid with fragments, else upgraded, else the active one.
ClickChest(u) ==
  IF fragments >= EPIC_CHEST_FRAGMENTS THEN "epic"
  ELSE IF fragments >= RARE_CHEST_FRAGMENTS THEN "rare"
  ELSE IF activeChest = "normal" THEN UpgradedChest(u)
  ELSE activeChest

\* The fragment updates of a click that pays only above RARE_CHEST_FRAGMENTS.
FragmentsAfterClickStrict ==
  (IF fragments >= EPIC_CHEST_FRAGMENTS THEN fragments - EPIC_CHEST_FRAGMENTS
   ELSE IF fragments > RARE_CHEST_FRAGMENTS THEN fragments - RARE_CHEST_FRAGMENTS
   ELSE fragments) + 1

\* The fragment updates of a click, applied in order: the payment, then + 1.
FragmentsAfterClick ==
  (IF fragments >= EPIC_CHEST_FRAGMENTS THEN fragments - EPIC_CHEST_FRAGMENTS
   ELSE IF fragments >= RARE_CHEST_FRAGMENTS THEN fragments - RARE_CHEST_FRAGMENTS
   ELSE fragments) + 1

X2DurationWide(u) == 3 + MathFloor(u * 4, RandDen)

\* 3 + Math.floor(Math.random() * 3)
X2Duration(u) == 3 + MathFloor(u * 3, RandDen)

HotStreakWide(u) == 2 + MathFloor(u * 3, RandDen)

\* 2 + Math.floor(Math.random() * 2)
HotStreak(u) == 2 + MathFloor(u * 2, RandDen)

ClickIgnoredNever == FALSE

\* if (isAnimating) return
ClickIgnored == isAnimating

\* onLoot: a click on the chest.  upgradeRoll, durationRoll and thresholdRoll
\* are the values Math.random() gives the three places that read it.
OnLoot(upgradeRoll, durationRoll, thresholdRoll) ==
  /\ IF ClickIgnored
     THEN UNCHANGED <<count, revealedDrops, isAnimating, attempts, fragments,
                      hotStreakRolls, x2RollsLeft, nextX2Threshold,
                      totalRollsForEvent, timers, openings, cleared>>
     ELSE LET chestType == ClickChest(upgradeRoll)
              multiplier == IF x2RollsLeft > 0 THEN MathMax(dropMultiplier, 2)
                                               ELSE dropMultiplier
              newTotalRolls == totalRollsForEvent + 1
              startsX2 == newTotalRolls >= nextX2Threshold /\ x2RollsLeft <= 0
              rarityBoost == IF hotStreakRolls > 0 THEN HotBoost ELSE Unit
          IN  /\ timers' = <<[kind |-> "shake", chestType |-> chestType,
                              multiplier |-> multiplier, rarityBoost |-> rarityBoost]>>
              /\ revealedDrops' = <<>>
              /\ isAnimating' = TRUE
              /\ attempts' = attempts + 1
              /\ fragments' = FragmentsAfterClick
              /\ x2RollsLeft' = IF startsX2 THEN X2Duration(durationRoll)
                                ELSE IF x2RollsLeft > 0 THEN x2RollsLeft - 1
                                ELSE x2RollsLeft
              /\ nextX2Threshold' = IF startsX2
                                    THEN newTotalRolls + X2Threshold(thresholdRoll)
                                    ELSE nextX2Threshold
              /\ totalRollsForEvent' = newTotalRolls
              /\ hotStreakRolls' = IF hotStreakRolls > 0 THEN hotStreakRolls - 1
                                                         ELSE hotStreakRolls
              /\ openings' = openings + 1
              /\ cleared' = FALSE
              /\ UNCHANGED count
  /\ UNCHANGED <<activeChest, dropMultiplier, observedCounts, lootCalls>>
  /\ UNCHANGED <<hookVars, timingVars>>

\* What getLoots(options) does with the stream of Math.random() values that
\* starts at seed: whether it throws, and the single draws it makes.
LootsDraws(max, chestType, multiplier, rarityBoost, seed) ==
  LET maxRolls == ResolveMaxRolls(max, chestType)
      baseCount == RandomInt(1, maxRolls, RandomAt(seed, 0))
      reroll == Reroll(baseCount, multiplier, maxRolls)
  IN  IF NoRolls(maxRolls) THEN [threw |-> FALSE, draws |-> <<>>]
      ELSE IF ~ValidArrayLength(reroll) THEN [threw |-> TRUE, draws |-> <<>>]
      ELSE [threw |-> FALSE,
            draws |-> BatchDraws(pool, chestType, rarityBoost, reroll \div Unit, seed)]

RECURSIVE Observe(_, _)
\* computeObservedDropRates: observedCounts with every item counted.
Observe(counts, items) ==
  IF items = <<>> THEN counts
  ELSE LET c == Observe(counts, SubSeq(items, 1, Len(items) - 1))
           item == items[Len(items)]
       IN  [c EXCEPT ![item] = @ + 1]

\* The reveal timers, in the order of their delays.
RevealTimers(sorted, bestIdx) ==
  [i \in 1..Len(sorted) |->
     [kind |-> "reveal", item |-> sorted[i],
      isBest |-> (i = Len(sorted) /\ bestIdx >= 2)]]

ScheduledTimersRevealOnly(sorted, bestIdx) == RevealTimers(sorted, bestIdx)

\* The timers the shake callback schedules: one per item at growing delays,
\* then doneTimeout 800 ms after the last of them.
ScheduledTimers(sorted, bestIdx) ==
  RevealTimers(sorted, bestIdx) \o <<[kind |-> "done"]>>

\* The getLoots call of the pending opening, from the random stream at seed.
OpeningLoots(seed) ==
  LET t == Head(timers)
  IN  LootsDraws(<<>>, t.chestType, t.multiplier * Unit, t.rarityBoost, seed)

OpeningValues(seed) ==
  [i \in 1..Len(OpeningLoots(seed).draws) |-> OpeningLoots(seed).draws[i].value]

\* The callback of shakeTimeout.  seed starts the Math.random() values of the
\* getLoots call, hotRoll is the value read for the new hot streak.
ShakeTimeout(seed, hotRoll) ==
  /\ timers # <<>>
  /\ Head(timers).kind = "shake"
  /\ LET loots == OpeningLoots(seed)
         values == OpeningValues(seed)
         items == NotNull(values)
         rollCount == CountRolls(totalRolls, SumRolls(loots.draws))
         sorted == SortByRarity(items)
         bestIdx == BestIdx(sorted)
     IN  /\ totalRolls' = rollCount
         /\ succeeded' = succeeded + Hits(values)
         /\ IF loots.threw
            THEN /\ timers' = <<>>
                 /\ UNCHANGED <<count, observedCounts, hotStreakRolls>>
            ELSE /\ count' = rollCount
                 /\ observedCounts' = Observe(observedCounts, items)
                 /\ hotStreakRolls' = IF bestIdx >= 2 THEN HotStreak(hotRoll)
                                                      ELSE hotStreakRolls
                 /\ timers' = ScheduledTimers(sorted, bestIdx)
  /\ lootCalls' = lootCalls + 1
  /\ UNCHANGED <<revealedDrops, isAnimating, attempts, activeChest, dropMultiplier,
                 fragments, x2RollsLeft, nextX2Threshold, totalRollsForEvent,
                 openings, cleared>>
  /\ UNCHANGED <<pool, status, call, ret, threw, drawn, prevRolls, lastEntries>>
  /\ UNCHANGED timingVars

\* The callback of one reveal timer.
RevealTimeout ==
  /\ timers # <<>>
  /\ Head(timers).kind = "reveal"
  /\ revealedDrops' = Append(revealedDrops, [item |-> Head(timers).item,
                                             isBest |-> Head(timers).isBest])
  /\ timers' = Tail(timers)
  /\ UNCHANGED <<count, isAnimating, attempts, activeChest, dropMultiplier, fragments,
                 hotStreakRolls, x2RollsLeft, nextX2Threshold, totalRollsForEvent,
                 observedCounts, openings, lootCalls, cleared>>
  /\ UNCHANGED <<hookVars, timingVars>>

\* The callback of doneTimeout.
DoneTimeout ==
  /\ timers # <<>>
  /\ Head(timers).kind = "done"
  /\ isAnimating' = FALSE
  /\ timers' = Tail(timers)
  /\ UNCHANGED <<count, revealedDrops, attempts, activeChest, dropMultiplier, fragments,
                 hotStreakRolls, x2RollsLeft, nextX2Threshold, totalRollsForEvent,
                 observedCounts, openings, lootCalls, cleared>>
  /\ UNCHANGED <<hookVars, timingVars>>

\* The Reset Stats button; u is the Math.random() value of the new threshold.
ResetStats(u) ==
  /\ revealedDrops' = <<>>
  /\ attempts' = 0
  /\ count' = 0
  /\ fragments' = 0
  /\ hotStreakRolls' = 0
  /\ x2RollsLeft' = 0
  /\ totalRollsForEvent' = 0
  /\ nextX2Threshold' = X2Threshold(u)
  /\ observedCounts' = [r \in RarityNames |-> 0]
  /\ cleared' = TRUE
  /\ UNCHANGED <<isAnimating, activeChest, dropMultiplier, timers, openings, lootCalls>>
  /\ UNCHANGED <<hookVars, timingVars>>

\* The chest buttons of the debug panel.
SetActiveChest(chestType) ==
  /\ activeChest' = chestType
  /\ UNCHANGED <<count, revealedDrops, isAnimating, attempts, dropMultiplier, fragments,
                 hotStreakRolls, x2RollsLeft, nextX2Threshold, totalRollsForEvent,
                 observedCounts, timers, openings, lootCalls, cleared>>
  /\ UNCHANGED <<hookVars, timingVars>>

\* The drop-event buttons of the debug panel.
SetDropMultiplier(m) ==
  /\ dropMultiplier' = m
  /\ UNCHANGED <<count, revealedDrops, isAnimating, attempts, activeChest, fragments,
                 hotStreakRolls, x2RollsLeft, nextX2Threshold, totalRollsForEvent,
                 observedCounts, timers, openings, lootCalls, cleared>>
  /\ UNCHANGED <<hookVars, timingVars>>

\* The App as mounted: the hook holds lootConfig.pools[0], was constructed
\* without an error and has not drawn; u is the initial threshold's roll.
InitApp ==
  /\ pool = [name |-> "rarity", entries |-> StandardPool]
  /\ status = "ready"
  /\ totalRolls = 0
  /\ succeeded = 0
  /\ call = NoCall
  /\ ret = Undefined
  /\ threw = FALSE
  /\ drawn = <<>>
  /\ prevRolls = 0
  /\ lastEntries = <<>>
  /\ \E u \in RunValues : Mounted(u)
  /\ Created(0)

\* Math.random() is read only where the handler reaches a call of it: the
\* values tried are those of the calls the handler makes in this state.
ValuesRead(read, values) == IF read THEN values ELSE {0}

ReadsUpgradeRoll ==
  ~ClickIgnored /\ fragments < RARE_CHEST_FRAGMENTS /\ activeChest = "normal"

StartsX2 ==
  ~ClickIgnored /\ totalRollsForEvent + 1 >= nextX2Threshold /\ x2RollsLeft <= 0

ReadsHotRoll(seed) ==
  /\ timers # <<>>
  /\ Head(timers).kind = "shake"
  /\ BestIdx(NotNull(OpeningValues(seed))) >= 2

\* The debug panel's buttons are pressed between openings: onLoot is the only
\* reader of what they set, and it reads at an accepted click.
NextApp ==
  \/ openings < MaxOpenings /\ \E upgradeRoll \in ValuesRead(ReadsUpgradeRoll, RunValues),
                                  durationRoll \in ValuesRead(StartsX2, RunValues),
                                  thresholdRoll \in ValuesRead(StartsX2, RunValues) :
                                 OnLoot(upgradeRoll, durationRoll, thresholdRoll)
  \/ \E seed \in BatchSeeds :
       \E hotRoll \in ValuesRead(ReadsHotRoll(seed), RunValues) : ShakeTimeout(seed, hotRoll)
  \/ RevealTimeout
  \/ DoneTimeout
  \/ \E u \in RunValues : ResetStats(u)
  \/ ~isAnimating /\ \E chestType \in ChestType : SetActiveChest(chestType)
  \/ ~isAnimating /\ \E m \in DropMultipliers : SetDropMultiplier(m)

SpecApp == InitApp /\ [][NextApp]_vars

\* The head of the timer queue is the callback of shakeTimeout.
ShakeDue == timers # <<>> /\ Head(timers).kind = "shake"

\* Timers that are due fire: the browser runs every scheduled callback while
\* the component is mounted.  ShakeTimeout is enabled exactly when ShakeDue
\* holds and each of its steps ends ShakeDue, so weak fairness of ShakeTimeout
\* is []<>~ShakeDue.
FairSpecApp ==
  /\ SpecApp
  /\ []<>(~ShakeDue)
  /\ WF_vars(RevealTimeout)
  /\ WF_vars(DoneTimeout)

\* Long runs of openings: no upgrade of a normal click, batches that start at
\* seed 0, the debug panel left alone.
NextAppRun ==
  \/ openings < MaxRunOpenings /\ \E durationRoll \in ValuesRead(StartsX2, RunValues),
                                     thresholdRoll \in ValuesRead(StartsX2, RunValues) :
                                    OnLoot(RandDen - 1, durationRoll, thresholdRoll)
  \/ \E hotRoll \in ValuesRead(ReadsHotRoll(0), RunValues) : ShakeTimeout(0, hotRoll)
  \/ RevealTimeout
  \/ DoneTimeout
  \/ \E u \in RunValues : ResetStats(u)

SpecAppRun == InitApp /\ [][NextAppRun]_vars

-----------------------------------------------------------------------------
(* debounce and throttle                                                   *)

\* The arguments the wrapped functions are called with.
CallArgs == {"a", "b"}

\* debounce(fn, Delay) and throttle(fn, Limit), in ticks of the clock.
Delay == 2
Limit == 2

\* Date.now() when the closures are created: far beyond Limit, so that the
\* first throttled call finds now - lastCall >= limit.
StartTime == Limit + 1
EndTime == StartTime + MaxTime

\* The hook and the App stand by while the wrapped functions are exercised.
InitTiming ==
  /\ pool = [name |-> "rarity", entries |-> StandardPool]
  /\ Fresh
  /\ Mounted(0)
  /\ Created(StartTime)

\* Time passes.
Tick ==
  /\ now < EndTime
  /\ now' = now + 1
  /\ UNCHANGED <<debounceTimer, debounceLast, debounceLog,
                 throttleLastCall, throttleTimer, throttleLog>>
  /\ UNCHANGED <<hookVars, appVars>>

\* A debounced call that leaves a pending timer as it is.
DebounceScheduleKeepFirst(args) ==
  IF debounceTimer # <<>> THEN debounceTimer
  ELSE <<[due |-> now + Delay, args |-> args]>>

\* clearTimeout of the pending timer, then setTimeout(..., delay).
DebounceSchedule(args) == <<[due |-> now + Delay, args |-> args]>>

\* debounced(...args)
DebouncedCall(args) ==
  /\ debounceTimer' = DebounceSchedule(args)
  /\ debounceLast' = <<[at |-> now, args |-> args, state |-> "pending"]>>
  /\ UNCHANGED <<now, debounceLog, throttleLastCall, throttleTimer, throttleLog>>
  /\ UNCHANGED <<hookVars, appVars>>

\* The timer's callback, run by the browser no earlier than it is due.
DebounceFire ==
  /\ debounceTimer # <<>>
  /\ now >= debounceTimer[1].due
  /\ debounceLog' = Append(debounceLog, [at |-> now, args |-> debounceTimer[1].args])
  /\ debounceTimer' = <<>>
  /\ debounceLast' = IF debounceLast = <<>> THEN debounceLast
                     ELSE <<[debounceLast[1] EXCEPT !.state = "invoked"]>>
  /\ UNCHANGED <<now, throttleLastCall, throttleTimer, throttleLog>>
  /\ UNCHANGED <<hookVars, appVars>>

\* debounced.cancel()
DebounceCancel ==
  /\ debounceTimer' = <<>>
  /\ debounceLast' = IF debounceTimer # <<>> /\ debounceLast # <<>>
                     THEN <<[debounceLast[1] EXCEPT !.state = "cancelled"]>>
                     ELSE debounceLast
  /\ UNCHANGED <<now, debounceLog, throttleLastCall, throttleTimer, throttleLog>>
  /\ UNCHANGED <<hookVars, appVars>>

\* A call is made while its timer can still come due on the clock.
NextDebounce ==
  \/ Tick
  \/ now + Delay <= EndTime /\ \E args \in CallArgs : DebouncedCall(args)
  \/ DebounceFire
  \/ DebounceCancel

SpecDebounce == InitTiming /\ [][NextDebounce]_vars

\* The clock advances and a due timer fires.
FairSpecDebounce ==
  /\ SpecDebounce
  /\ WF_vars(Tick)
  /\ WF_vars(DebounceFire)

\* throttled(...args)
ThrottledCall(args) ==
  /\ IF now - throttleLastCall >= Limit
     THEN /\ throttleLastCall' = now
          /\ throttleLog' = Append(throttleLog, [at |-> now, args |-> args])
          /\ UNCHANGED throttleTimer
     ELSE IF throttleTimer = <<>>
     THEN /\ throttleTimer' = <<[due |-> now + (Limit - (now - throttleLastCall)),
                                 args |-> args]>>
          /\ UNCHANGED <<throttleLastCall, throttleLog>>
     ELSE UNCHANGED <<throttleLastCall, throttleTimer, throttleLog>>
  /\ UNCHANGED <<now, debounceTimer, debounceLast, debounceLog>>
  /\ UNCHANGED <<hookVars, appVars>>

\* The trailing timer's callback, run by the browser no earlier than it is due.
ThrottleFire ==
  /\ throttleTimer # <<>>
  /\ now >= throttleTimer[1].due
  /\ throttleLastCall' = now
  /\ throttleTimer' = <<>>
  /\ throttleLog' = Append(throttleLog, [at |-> now, args |-> throttleTimer[1].args])
  /\ UNCHANGED <<now, debounceTimer, debounceLast, debounceLog>>
  /\ UNCHANGED <<hookVars, appVars>>

\* throttled.cancel()
ThrottleCancel ==
  /\ throttleTimer' = <<>>
  /\ UNCHANGED <<now, throttleLastCall, throttleLog>>
  /\ UNCHANGED <<debounceTimer, debounceLast, debounceLog>>
  /\ UNCHANGED <<hookVars, appVars>>

NextThrottle ==
  \/ Tick
  \/ \E args \in CallArgs : ThrottledCall(args)
  \/ ThrottleFire
  \/ ThrottleCancel

SpecThrottle == InitTiming /\ [][NextThrottle]_vars

-----------------------------------------------------------------------------
(* Properties                                                              *)

Abs(x) == IF x < 0 THEN -x ELSE x

IsDraw == call.op = "getLoot"
IsBatch == call.op = "getLoots"

CallMaxRolls == ResolveMaxRolls(call.max, call.chestType)

\* No entry is eligible for the draws of the current call, or the eligible
\* entries weigh nothing.
NothingToDraw ==
  \/ Len(Filtered(pool.entries, call.chestType)) = 0
  \/ SumWeights(EffectiveEntries(pool.entries, call.chestType, call.rarityBoost)) = 0

\* C1: constructing the roller raises an error exactly when the sum of the
\* pool's entry weights exceeds POOL_BASE_WEIGHT (10000); every pool of sum at
\* most 10000, the empty pool and a pool of weight 0 included, is accepted.
C1_ConstructionError ==
  status # "new" =>
    /\ status = "error" <=> PoolSum(pool) > 10000
    /\ call.op = "useLoot" => (threw <=> PoolSum(pool) > 10000)
    /\ (Len(pool.entries) = 0 \/ PoolSum(pool) = 0) => status = "ready"

C1_Witness == call.op = "useLoot" /\ threw /\ status = "error" /\ PoolSum(pool) > 10000

\* C2: after any sequence of getLoot and getLoots calls getRollCount() equals
\* the number of single draws that returned an entry name since construction.
C2_RollCountIsSuccesses ==
  /\ totalRolls = succeeded
  /\ call.op = "getRollCount" => ret = succeeded

C2_Witness == call.op = "getRollCount" /\ ret = 3 /\ succeeded = 3

\* C3: neither getLoot nor any item of getLoots is a name in the chest's
\* excludeRarities: the epic chest never yields common, uncommon or rare, the
\* rare chest never yields common or uncommon.
C3_NoExcludedRarity ==
  /\ IsDraw => ret \notin CHEST_CONFIGS[call.chestType].excludeRarities
  /\ (IsBatch /\ ~threw) =>
       \A i \in 1..Len(ret) :
         /\ ret[i] \notin CHEST_CONFIGS[call.chestType].excludeRarities
         /\ call.chestType = "epic" => ret[i] \notin {"common", "uncommon", "rare"}
         /\ call.chestType = "rare" => ret[i] \notin {"common", "uncommon"}

C3_Witness ==
  /\ IsBatch /\ ~threw
  /\ call.chestType = "epic"
  /\ pool.entries = StandardPool
  /\ Len(ret) >= 2

\* C4: a getLoots call whose resolved maxRolls is 0 or negative returns an
\* empty sequence, performs no single draw and leaves the roll counter as it
\* was.
C4_NoRollsNoDraws ==
  (IsBatch /\ CallMaxRolls <= 0) =>
    /\ ~threw
    /\ ret = <<>>
    /\ drawn = <<>>
    /\ totalRolls = prevRolls

C4_Witness == IsBatch /\ call.max = <<0>> /\ ret = <<>> /\ prevRolls > 0

\* C5 as stated: for every chest type, multiplier and max the sequence
\* returned by getLoots has at least 0 and at most 2 x maxRolls items.
C5_BatchSizeAsStated ==
  (IsBatch /\ ~threw) => (Len(ret) >= 0 /\ Len(ret) * Unit <= 2 * CallMaxRolls)

\* C5, amended: a sequence returned by getLoots has at most 2 x maxRolls items
\* when maxRolls is not negative, and no item when maxRolls is negative; with
\* the rare chest, multiplier 1 and no max it has at most 6 items.
C5_BatchSize ==
  (IsBatch /\ ~threw) =>
    /\ Len(ret) >= 0
    /\ CallMaxRolls >= 0 => Len(ret) * Unit <= 2 * CallMaxRolls
    /\ CallMaxRolls < 0 => Len(ret) = 0
    /\ (call.chestType = "rare" /\ call.max = <<>>) => Len(ret) <= 6

C5_Witness ==
  /\ IsBatch /\ ~threw
  /\ call.chestType = "rare" /\ call.max = <<>>
  /\ Len(ret) = 6

\* C6: for the standard pool getLootChances() returns common 60.00, uncommon
\* 25.00, rare 10.00, epic 4.00, legendary 0.90, mythic 0.10; in general every
\* entry's value is weight / poolSum x 100 rounded to the nearest hundredth.
C6_LootChances ==
  call.op = "getLootChances" =>
    /\ DOMAIN ret = {pool.entries[i].name : i \in 1..Len(pool.entries)}
    /\ \A i \in 1..Len(pool.entries) :
         2 * Abs(ret[pool.entries[i].name] * PoolSum(pool)
                   - pool.entries[i].weight * 100 * 100) <= PoolSum(pool)
    /\ pool.entries = StandardPool =>
         ret = [common |-> 6000, uncommon |-> 2500, rare |-> 1000,
                epic |-> 400, legendary |-> 90, mythic |-> 10]

C6_Witness ==
  /\ call.op = "getLootChances"
  /\ pool.entries = StandardPool
  /\ ret["legendary"] = 90

RECURSIVE SumChances(_, _)
SumChances(table, entries) ==
  IF entries = <<>> THEN 0
  ELSE table[entries[1].name] + SumChances(table, Tail(entries))

\* C7: for every pool whose weights sum to exactly 10000 the percentages of
\* getLootChances() sum to 100, within half a hundredth per entry.
C7_ChancesSumTo100 ==
  (call.op = "getLootChances" /\ PoolSum(pool) = POOL_BASE_WEIGHT) =>
    2 * Abs(SumChances(ret, pool.entries) - 100 * 100) <= Len(pool.entries)

C7_Witness ==
  /\ call.op = "getLootChances"
  /\ PoolSum(pool) = POOL_BASE_WEIGHT
  /\ Len(pool.entries) = 2
  /\ ret[pool.entries[1].name] = 3333

\* C8: draws never modify the pool's weights, so the table of getLootChances()
\* is the same before and after every step; the table is that of the whole
\* base pool whatever chests were drawn from, and computing it leaves the roll
\* counter as it was.
C8_ChancesUnaffectedByDraws ==
  [][/\ pool' = pool
     /\ LootChances(pool', pool'.entries) = LootChances(pool, pool.entries)
     /\ call'.op = "getLootChances" =>
          /\ totalRolls' = totalRolls
          /\ DOMAIN ret' = {pool.entries[i].name : i \in 1..Len(pool.entries)}
          /\ \A i \in 1..Len(pool.entries) :
               ret'[pool.entries[i].name]
                 = ToPercentage(pool.entries[i].weight, SumWeights(pool.entries))]_vars

C8_Witness ==
  /\ call.op = "getLootChances"
  /\ totalRolls >= 2
  /\ "rare" \in DOMAIN ret /\ ret["rare"] > 0

\* C9: a single draw that finds no eligible entry, or whose eligible weights
\* sum to zero, returns null without raising and without changing the roll
\* counter; in a batch such draws contribute no item.
C9_EmptyDrawIsSilent ==
  /\ (IsDraw /\ NothingToDraw) =>
       (ret = Null /\ ~threw /\ totalRolls = prevRolls)
  /\ (IsBatch /\ ~threw /\ NothingToDraw) =>
       /\ ret = <<>>
       /\ \A i \in 1..Len(drawn) : drawn[i] = Null
       /\ totalRolls = prevRolls

C9_Witness ==
  /\ IsBatch /\ ~threw /\ NothingToDraw
  /\ Len(pool.entries) > 0
  /\ Len(drawn) >= 2
  /\ ret = <<>>

\* C10: once the roller is constructed, getLoot and getLoots return normally
\* for every chest type, rarityBoost, multiplier (0, fractional and negative
\* included) and max.
C10_DrawsNeverThrow == (IsDraw \/ IsBatch) => ~threw

-----------------------------------------------------------------------------
(* Properties of the draw itself                                           *)

\* The current call made at least one single draw, so lastEntries holds the
\* entries that draw was made from.
HasDraws == IsDraw \/ (IsBatch /\ Len(drawn) > 0)

Cumulative(es, k) == SumWeights(SubSeq(es, 1, k))

\* The eligible entries of the current call with the chest's overrides, before
\* any boost.
CallBaseEntries == Overridden(Filtered(pool.entries, call.chestType), call.chestType)

RarePlus == {"rare", "epic", "legendary", "mythic"}

\* C11: for every drawn value r in [0, localSum) a single draw returns the
\* first eligible entry, in pool order, whose cumulative effective weight is
\* greater than or equal to r; such an entry exists, so a draw that reaches the
\* walk never returns null.
C11_FirstEntryReachingRoll ==
  /\ (IsDraw /\ ~NothingToDraw) =>
       LET sum == SumWeights(lastEntries)
       IN  /\ ret # Null
           /\ \E k \in 1..Len(lastEntries) :
                /\ lastEntries[k].name = ret
                /\ call.u * sum <= Cumulative(lastEntries, k) * RandDen
                /\ \A j \in 1..(k - 1) :
                     call.u * sum > Cumulative(lastEntries, j) * RandDen
  /\ (IsBatch /\ ~threw /\ ~NothingToDraw) =>
       \A i \in 1..Len(drawn) : drawn[i] # Null

C11_Witness ==
  /\ IsDraw /\ call.u > 0
  /\ Len(lastEntries) = 2
  /\ lastEntries[1].weight > 0
  /\ ret = lastEntries[2].name

\* C12: with rarityBoost > 1 the effective weight of every eligible entry named
\* rare, epic, legendary or mythic is its (possibly overridden) weight times
\* rarityBoost rounded to the nearest integer and every other weight is
\* unchanged; with rarityBoost <= 1 no weight changes; rarityBoost = 2 doubles.
C12_BoostRaisesRarePlus ==
  HasDraws =>
    /\ Len(lastEntries) = Len(CallBaseEntries)
    /\ \A i \in 1..Len(lastEntries) :
         LET w == lastEntries[i].weight
             base == CallBaseEntries[i].weight
             diff == 2 * (w * Unit - base * call.rarityBoost)
         IN  /\ lastEntries[i].name = CallBaseEntries[i].name
             /\ IF call.rarityBoost > Unit /\ lastEntries[i].name \in RarePlus
                THEN diff > -Unit /\ diff <= Unit
                ELSE w = base
             /\ (call.rarityBoost = 2 * Unit /\ lastEntries[i].name \in RarePlus)
                  => w = 2 * base

C12_Witness ==
  /\ IsDraw /\ call.rarityBoost = 6 /\ call.chestType = "normal"
  /\ Len(lastEntries) = 2
  /\ lastEntries[1] = [name |-> "common", weight |-> 2000]
  /\ lastEntries[2] = [name |-> "epic", weight |-> 10001]

\* C13: with weightOverrides an eligible entry's effective weight is its
\* override when one is defined for its name and its pool weight otherwise;
\* overrides come after the exclusion and before the boost, and the normal
\* chest uses the pool weights as they are.
C13_OverridesReplaceWeights ==
  HasDraws =>
    LET config == CHEST_CONFIGS[call.chestType]
        eligible == SelectSeq(pool.entries,
                              LAMBDA e : e.name \notin config.excludeRarities)
        Replaced(e) == IF /\ "weightOverrides" \in DOMAIN config
                          /\ e.name \in DOMAIN config.weightOverrides
                       THEN config.weightOverrides[e.name]
                       ELSE e.weight
    IN  /\ Len(lastEntries) = Len(eligible)
        /\ \A i \in 1..Len(lastEntries) :
             /\ lastEntries[i].name = eligible[i].name
             /\ lastEntries[i].weight =
                  IF call.rarityBoost > Unit /\ eligible[i].name \in RarePlus
                  THEN MathRound(Replaced(eligible[i]) * call.rarityBoost, Unit)
                  ELSE Replaced(eligible[i])
        /\ (call.chestType = "normal" /\ call.rarityBoost <= Unit)
             => lastEntries = pool.entries

C13_Witness ==
  /\ IsDraw /\ call.chestType = "epic" /\ call.rarityBoost = Unit
  /\ pool.entries = <<[name |-> "gem", weight |-> 2000],
                      [name |-> "epic", weight |-> 0]>>
  /\ lastEntries = <<[name |-> "gem", weight |-> 2000],
                     [name |-> "epic", weight |-> 6500]>>

\* C14: a getLoots call with resolved maxRolls > 0 performs exactly
\* finalCount = min(round(baseCount x multiplier), 2 x maxRolls) single draws,
\* and when every draw succeeds the roll counter grows by exactly finalCount.
C14_ExactlyFinalCountDraws ==
  (IsBatch /\ CallMaxRolls > 0) =>
    LET finalCount == Reroll(call.baseCount, call.multiplier, CallMaxRolls)
    IN  /\ ~threw
        /\ Len(drawn) * Unit = finalCount
        /\ (\A i \in 1..Len(drawn) : drawn[i] # Null)
             => (totalRolls - prevRolls) * Unit = finalCount

\* C15: in a pool of positive total weight below 10000 the weight missing up
\* to 10000 is "no drop": a draw whose value falls into the missing part
\* returns no result.
C15_MissingWeightIsNoDrop ==
  ( /\ IsDraw /\ call.chestType = "normal" /\ call.rarityBoost <= Unit
    /\ PoolSum(pool) > 0 /\ PoolSum(pool) < POOL_BASE_WEIGHT
    /\ call.u * POOL_BASE_WEIGHT > PoolSum(pool) * RandDen )
  => ret = Null

\* C16: the roll counter never decreases, every successful single draw raises
\* it by exactly 1, and no roller operation resets it.
C16_CounterMonotonic ==
  [][/\ totalRolls' >= totalRolls
     /\ call'.op = "getLoot" =>
          totalRolls' = totalRolls + (IF ret' # Null THEN 1 ELSE 0)
     /\ (call'.op = "getLoots" /\ ~threw') =>
          totalRolls' = totalRolls + Len(ret')
     /\ call'.op \in {"getLootChances", "getPoolName", "getRollCount", "none"} =>
          totalRolls' = totalRolls]_vars

C16_Witness ==
  /\ IsBatch /\ ~threw
  /\ prevRolls >= 2
  /\ totalRolls = prevRolls + 3

\* C17: the shipped rarity pool has six entries summing to exactly 10000, so
\* constructing the roller from it never raises, and for each chest type the
\* effective weights of the eligible entries with rarityBoost 1 sum to 10000.
C17_ShippedConfigConsistent ==
  /\ Len(StandardPool) = 6
  /\ SumWeights(StandardPool) = 10000
  /\ pool.entries = StandardPool => status # "error"
  /\ (HasDraws /\ pool.entries = StandardPool /\ call.rarityBoost = Unit) =>
       /\ Len(lastEntries) > 0
       /\ SumWeights(lastEntries) = 10000

C17_Witness ==
  /\ IsDraw /\ pool.entries = StandardPool
  /\ call.rarityBoost = Unit /\ call.chestType = "epic"
  /\ Len(lastEntries) = 3

RECURSIVE KeepNames(_)
KeepNames(values) ==
  IF values = <<>> THEN <<>>
  ELSE IF Head(values) = Null THEN KeepNames(Tail(values))
  ELSE <<Head(values)>> \o KeepNames(Tail(values))

\* C18: a getLoots call returns the non-null draw results in draw order, and
\* the length of the returned sequence equals the increase of the roll counter
\* caused by the call.
C18_BatchKeepsDrawOrder ==
  (IsBatch /\ ~threw) =>
    /\ ret = KeepNames(drawn)
    /\ Len(ret) = totalRolls - prevRolls

C18_Witness ==
  /\ IsBatch /\ ~threw
  /\ Len(ret) >= 3
  /\ ret[1] # ret[2]

\* C19: the chest-aware draw with chest type "normal" and rarityBoost 1 gives,
\* for every pool and every drawn value, the result and the counter change of
\* the earlier chest-less draw.
C19_NormalChestIsLegacyDraw ==
  (IsDraw /\ call.chestType = "normal" /\ call.rarityBoost = Unit) =>
    /\ ret = LegacyDrawOnce(pool, call.u).value
    /\ totalRolls - prevRolls = LegacyDrawOnce(pool, call.u).rolls

C19_Witness ==
  /\ IsDraw /\ call.chestType = "normal" /\ call.rarityBoost = Unit
  /\ PoolSum(pool) > 0 /\ PoolSum(pool) < POOL_BASE_WEIGHT
  /\ Len(pool.entries) = 2
  /\ ret = pool.entries[2].name
  /\ totalRolls = prevRolls + 1

\* C20: a single draw never returns an entry whose effective weight is 0, for
\* every drawn value in [0, localSum), the value 0 and a zero-weight entry
\* placed first included.
C20_NeverZeroWeightEntry ==
  (IsDraw /\ ret # Null) =>
    \A i \in 1..Len(lastEntries) :
      lastEntries[i].name = ret => lastEntries[i].weight > 0

\* C21: for an integer maxRolls >= 1 the base count of a batch is an integer
\* from 1 to maxRolls; on the standard pool a getLoots call with multiplier 1
\* returns at least 1 and at most maxRolls items, so at most 10 with the normal
\* chest, 3 with the rare chest and 2 with the epic chest.
C21_BaseCountInRange ==
  (IsBatch /\ CallMaxRolls >= Unit /\ CallMaxRolls % Unit = 0) =>
    /\ call.baseCount \in 1..(CallMaxRolls \div Unit)
    /\ (pool.entries = StandardPool /\ call.multiplier = Unit) =>
         /\ ~threw
         /\ Len(ret) = call.baseCount
         /\ Len(ret) >= 1 /\ Len(ret) * Unit <= CallMaxRolls
         /\ call.max = <<>> =>
              Len(ret) <= (CASE call.chestType = "normal" -> 10
                             [] call.chestType = "rare" -> 3
                             [] call.chestType = "epic" -> 2)

C21_Witness ==
  /\ IsBatch /\ ~threw
  /\ pool.entries = StandardPool /\ call.multiplier = Unit
  /\ call.chestType = "rare" /\ call.max = <<>>
  /\ call.baseCount = 3 /\ Len(ret) = 3

-----------------------------------------------------------------------------
(* Properties of the App                                                   *)

\* totalObserved: the sum of the observedCounts map.
RECURSIVE SumObserved(_)
SumObserved(names) ==
  IF names = <<>> THEN 0
  ELSE observedCounts[Head(names)] + SumObserved(Tail(names))

TotalObserved == SumObserved(RARITY_ORDER)

\* A step that is an accepted click on the chest, and one that is the callback
\* of shakeTimeout.
AcceptedClick == openings' = openings + 1
ShakeFired == lootCalls' = lootCalls + 1

ShakeTimers(ts) == SelectSeq(ts, LAMBDA t : t.kind = "shake")

\* C22: whenever no chest opening is in progress the displayed Rolls count
\* equals the total of the observed per-rarity counts, after Reset Stats
\* followed by further openings included.
C22_CountIsTotalObserved == ~isAnimating => count = TotalObserved

\* C23: at most one chest opening is in flight.  While isAnimating is true no
\* step has the effects of a click: no attempt is counted, no fragment or
\* event roll is added, x2RollsLeft and hotStreakRolls are not consumed and no
\* shake timer is scheduled; every counted attempt makes at most one getLoots
\* call.
C23_OneOpeningInFlight ==
  [][ /\ isAnimating =>
           /\ openings' = openings
           /\ attempts' \in {attempts, 0}
           /\ fragments' \in {fragments, 0}
           /\ totalRollsForEvent' \in {totalRollsForEvent, 0}
           /\ x2RollsLeft' \in {x2RollsLeft, 0}
           /\ hotStreakRolls' # hotStreakRolls => (ShakeFired \/ hotStreakRolls' = 0)
           /\ ShakeTimers(timers') = <<>> \/ timers' = timers
      /\ AcceptedClick <=> attempts' = attempts + 1
      /\ Len(ShakeTimers(timers')) <= 1
      /\ lootCalls' <= openings' /\ openings' <= lootCalls' + 1
      /\ timers' # <<>> => isAnimating'
    ]_vars

C23_Witness ==
  /\ isAnimating /\ openings = 1 /\ attempts = 1 /\ lootCalls = 1
  /\ timers # <<>> /\ Head(timers).kind = "reveal"

\* C24: every accepted click on the chest is eventually followed by
\* isAnimating becoming false again, when the scheduled timers fire, Reset
\* Stats pressed during the opening included.
C24_ChestBecomesClickable == isAnimating ~> ~isAnimating

C24_Witness == isAnimating /\ cleared /\ openings = 2 /\ timers # <<>>

\* C25: the fragment counter stays within 0..20.  Every accepted click adds
\* exactly one fragment, a click made with at least 20 fragments spends 20 of
\* them on a rare chest, and no click finds 50 or more fragments, so no click
\* pays for an epic chest with fragments.
C25_FragmentsInRange ==
  /\ [](fragments \in 0..20)
  /\ [][AcceptedClick =>
          /\ fragments < EPIC_CHEST_FRAGMENTS
          /\ IF fragments >= RARE_CHEST_FRAGMENTS
             THEN /\ fragments' = fragments - RARE_CHEST_FRAGMENTS + 1
                  /\ Head(timers').chestType = "rare"
             ELSE fragments' = fragments + 1
       ]_vars

C25_Witness ==
  /\ attempts = 21 /\ fragments = 1
  /\ timers # <<>> /\ Head(timers).kind = "shake" /\ Head(timers).chestType = "rare"

\* C26: x2RollsLeft is always between 0 and 5.  Every opening clicked while
\* it is positive uses a batch multiplier of at least 2 and lowers it by
\* exactly 1; a new x2 event of 3 to 5 openings starts only on a click where
\* x2RollsLeft is 0 and the opening count has reached nextX2Threshold; and
\* nextX2Threshold is strictly greater than totalRollsForEvent.
C26_X2RollsInRange ==
  /\ [](x2RollsLeft \in 0..5)
  /\ [](nextX2Threshold > totalRollsForEvent)
  /\ [][ /\ (AcceptedClick /\ x2RollsLeft > 0) =>
              /\ x2RollsLeft' = x2RollsLeft - 1
              /\ Head(timers').multiplier >= 2
         /\ x2RollsLeft' > x2RollsLeft =>
              /\ AcceptedClick
              /\ x2RollsLeft = 0
              /\ totalRollsForEvent' >= nextX2Threshold
              /\ x2RollsLeft' \in 3..5
       ]_vars

C26_Witness ==
  /\ attempts = 31 /\ x2RollsLeft \in 2..4
  /\ timers # <<>> /\ Head(timers).kind = "shake" /\ Head(timers).multiplier = 2

\* C27: hotStreakRolls is always between 0 and 3.  An opening draws with
\* rarityBoost 1.5 exactly when hotStreakRolls is positive at the click and
\* with rarityBoost 1 otherwise, each boosted opening consumes one hot-streak
\* roll, and an opening whose best item is rare or above sets hotStreakRolls
\* to 2 or 3.
C27_HotStreakInRange ==
  /\ [](hotStreakRolls \in 0..3)
  /\ [][ /\ AcceptedClick =>
              /\ Head(timers').rarityBoost = (IF hotStreakRolls > 0 THEN HotBoost ELSE Unit)
              /\ hotStreakRolls' = (IF hotStreakRolls > 0 THEN hotStreakRolls - 1 ELSE 0)
         /\ (/\ ShakeFired
             /\ \E i \in 1..Len(timers') :
                  timers'[i].kind = "reveal" /\ RarityIdx(timers'[i].item) >= 2) =>
              hotStreakRolls' \in {2, 3}
       ]_vars

C27_Witness ==
  /\ timers # <<>> /\ Head(timers).kind = "shake"
  /\ Head(timers).rarityBoost = HotBoost
  /\ hotStreakRolls = 2

\* C28: after Reset Stats is pressed the revealed-drop list stays empty, the
\* observed per-rarity counts stay 0 and the Rolls count stays 0 until the next
\* click on the chest, for every interleaving of the reset with the timers of
\* an opening that is still in progress.
C28_ResetStaysCleared ==
  cleared =>
    /\ revealedDrops = <<>>
    /\ count = 0
    /\ \A r \in RarityNames : observedCounts[r] = 0

-----------------------------------------------------------------------------
(* Properties of debounce and throttle                                     *)

DebounceInvoked == Len(debounceLog') = Len(debounceLog) + 1

\* C29: the function wrapped by debounce(fn, delay) is invoked only when delay
\* has elapsed with no further call since the last call, and then once, with
\* the arguments of that last call; a burst of calls less than delay apart
\* gives a single invocation, after cancel() the pending invocation does not
\* happen, and a call that is neither followed by another nor cancelled is
\* invoked.
C29_DebounceInvokesLastCall ==
  /\ [][DebounceInvoked =>
          /\ debounceLast # <<>>
          /\ debounceLast[1].state = "pending"
          /\ now >= debounceLast[1].at + Delay
          /\ debounceLog'[Len(debounceLog')].args = debounceLast[1].args
          /\ debounceLast'[1].state = "invoked"
       ]_vars
  /\ [](debounceTimer # <<>> <=> (debounceLast # <<>> /\ debounceLast[1].state = "pending"))
  /\ (debounceTimer # <<>>) ~> (debounceTimer = <<>>)

C29_Witness ==
  /\ Len(debounceLog) = 1
  /\ debounceLog[1] = [at |-> StartTime + 1 + Delay, args |-> "b"]
  /\ debounceLast = <<[at |-> StartTime + 1, args |-> "b", state |-> "invoked"]>>

\* C30: any two invocations of the function wrapped by throttle(fn, limit),
\* leading or trailing, are at least limit apart, for every timing of the
\* calls and of the trailing timer's firing.
C30_InvocationsLimitApart ==
  \A i \in 1..(Len(throttleLog) - 1) :
    throttleLog[i + 1].at - throttleLog[i].at >= Limit

====
